---- MODULE Spec2Model ----
(***************************************************************************)
(* PyTorch-StudioGAN, train.py: the entry point train_framework as a state *)
(* machine.  One action per block of the function, in program order; `pc`  *)
(* is the position in the function body.  The Trainer's loop, the EMA      *)
(* updater and the checkpoint loader live in other files of the repository *)
(* (trainer.py, utils/biggan_utils.py, utils/load_checkpoint.py) and are   *)
(* modelled from their documented contract.                                *)
(***************************************************************************)
EXTENDS Integers, Sequences, FiniteSets, TLC

VARIABLES
    cfg,                      \* the arguments of train_framework (never assigned)
    dir,                      \* the files present in the checkpoint folder
    pc,                       \* position in train_framework
    error,                    \* the exception that ended the run, "" if none
    step, best_step, best_fid, best_fid_checkpoint_path,
    run_name, trained_seed,
    Gen, Dis, Gen_copy, Gen_ema,
    G_optimizer, D_optimizer,
    g_checkpoint_dir, d_checkpoint_dir, g_ema_checkpoint_dir,
    mu,                       \* the reference statistics (mu, sigma), <<>> is None
    prepared,                 \* calls of prepare_inception_moments_eval_dataset
    linear_model,
    trainer,                  \* the Trainer object
    calls,                    \* Trainer methods invoked by train_framework, in order
    evaluations,              \* executions of Trainer.evaluation, from anywhere
    saved,                    \* checkpoints written by the Trainer
    alternations              \* completed D_STEP/G_STEP alternations

vars == <<cfg, dir, pc, error, step, best_step, best_fid, best_fid_checkpoint_path,
          run_name, trained_seed, Gen, Dis, Gen_copy, Gen_ema, G_optimizer,
          D_optimizer, g_checkpoint_dir, d_checkpoint_dir, g_ema_checkpoint_dir,
          mu, prepared, linear_model, trainer, calls, evaluations, saved,
          alternations>>

(***************************************************************************)
(* Bounds of the model.                                                    *)
(***************************************************************************)
MaxSeed == 1
MaxTotalStep == 2
MaxEmaStart == 2
MaxSaveEvery == 1
MaxWeight == 1
MaxGpus == 2
MinBatch == 4
DecayDen == 4
MaxStat == 1
MaxFid == 2
DStepsPerIter == 1
GStepsPerIter == 1

(***************************************************************************)
(* Python's None and optional values: <<>> is None, <<x>> is the value x.  *)
(***************************************************************************)
None == <<>>
Some(x) == <<x>>

RECURSIVE Pow(_, _)
Pow(b, n) == IF n = 0 THEN 1 ELSE b * Pow(b, n - 1)

(***************************************************************************)
(* The checkpoint files that may lie in the checkpoint folder.  A file is  *)
(* "model=<role>-<slot>-weights-step<step>.pth" and holds weights and the  *)
(* metadata load_checkpoint returns.                                       *)
(***************************************************************************)
FileIds == {"g1", "g2", "gb", "d1", "d2", "db", "e1", "e2", "eb"}

CkptFile(id) ==
    CASE id = "g1" -> [role |-> "G", slot |-> "current", seed |-> 0, run_name |-> "runG1",
                        step |-> 1, best_step |-> 0, best_fid |-> None, w |-> 1]
      [] id = "g2" -> [role |-> "G", slot |-> "current", seed |-> 1, run_name |-> "runG2",
                        step |-> 2, best_step |-> 2, best_fid |-> None, w |-> 0]
      [] id = "gb" -> [role |-> "G", slot |-> "best", seed |-> 1, run_name |-> "runGb",
                        step |-> 0, best_step |-> 0, best_fid |-> None, w |-> 1]
      [] id = "d1" -> [role |-> "D", slot |-> "current", seed |-> 0, run_name |-> "runD1",
                        step |-> 2, best_step |-> 1, best_fid |-> Some(2), w |-> 1]
      [] id = "d2" -> [role |-> "D", slot |-> "current", seed |-> 1, run_name |-> "runD2",
                        step |-> 1, best_step |-> 1, best_fid |-> Some(1), w |-> 0]
      [] id = "db" -> [role |-> "D", slot |-> "best", seed |-> 0, run_name |-> "runDb",
                        step |-> 1, best_step |-> 1, best_fid |-> Some(3), w |-> 1]
      [] id = "e1" -> [role |-> "G_ema", slot |-> "current", seed |-> 0, run_name |-> "runE1",
                        step |-> 1, best_step |-> 0, best_fid |-> None, w |-> 1]
      [] id = "e2" -> [role |-> "G_ema", slot |-> "current", seed |-> 1, run_name |-> "runE2",
                        step |-> 2, best_step |-> 0, best_fid |-> None, w |-> 0]
      [] id = "eb" -> [role |-> "G_ema", slot |-> "best", seed |-> 0, run_name |-> "runEb",
                        step |-> 1, best_step |-> 0, best_fid |-> None, w |-> 0]

(* glob.glob(join(checkpoint_dir, "model=<role>-<when>-weights-step*.pth")) *)
Glob(d, role, when) ==
    {f \in d : CkptFile(f).role = role /\ CkptFile(f).slot = when}

(* when = "current" if load_current is True else "best" *)
When(load_current) == IF load_current THEN "current" ELSE "best"

(***************************************************************************)
(* The arguments of train_framework and the environment it reads.          *)
(***************************************************************************)
DcganImgSize == 32

Optimizers == {"SGD", "RMSprop", "Adam", "Adagrad"}
AdvLosses == {"vanilla", "hinge", "wasserstein", "least_square"}
Strategies == {"ContraGAN", "Proxy_NCA_GAN", "XT_Xent_GAN", "no"}
Architectures == {"dcgan", "resnet"}
ImgSizes == {DcganImgSize, 2 * DcganImgSize}
Folders == {None, Some("missing"), Some("ckpt")}
CurrentFiles == {f \in FileIds : CkptFile(f).slot = "current"}
BestFiles == {f \in FileIds : CkptFile(f).slot = "best"}
OneOfEach == {"g1", "d1", "e1"}

BaseConfig ==
    [seed |-> 0, load_current |-> TRUE, img_size |-> DcganImgSize,
     architecture |-> "resnet", conditional_strategy |-> "no",
     optimizer |-> "Adam", batch_size |-> MinBatch, n_gpus |-> 1,
     total_step |-> 1, adv_loss |-> "hinge",
     ema |-> FALSE, ema_decay |-> 1, ema_start |-> 1,
     checkpoint_folder |-> None,
     train |-> TRUE, eval |-> FALSE, k_nearest_neighbor |-> FALSE,
     interpolation |-> FALSE, linear_evaluation |-> FALSE, save_every |-> 0]

(* Runs that differ in what configuration validation reads. *)
ValidationInputs ==
    { <<[BaseConfig EXCEPT !.batch_size = b, !.n_gpus = n, !.architecture = a,
                           !.img_size = i, !.optimizer = o, !.adv_loss = l,
                           !.checkpoint_folder = f, !.train = t, !.ema = e],
        OneOfEach \cup BestFiles>> :
        b \in {MinBatch, MinBatch + 1}, n \in 1..MaxGpus, a \in Architectures,
        i \in ImgSizes, o \in Optimizers, l \in AdvLosses, f \in Folders,
        t \in BOOLEAN, e \in BOOLEAN }

(* Runs that resume, over the contents of the checkpoint folder. *)
ResumeConfigs(lc) ==
    { [BaseConfig EXCEPT !.checkpoint_folder = Some("ckpt"), !.load_current = lc,
                         !.seed = s, !.ema = e, !.eval = v, !.total_step = t,
                         !.adv_loss = l, !.conditional_strategy = c] :
        s \in 0..MaxSeed, e \in BOOLEAN, v \in BOOLEAN, t \in {1, MaxTotalStep},
        l \in {"hinge", "least_square"}, c \in {"no", "XT_Xent_GAN"} }

ResumeInputs ==
    { <<c, d \cup BestFiles>> : c \in ResumeConfigs(TRUE), d \in SUBSET CurrentFiles }
    \cup
    { <<c, d \cup OneOfEach>> : c \in ResumeConfigs(FALSE), d \in SUBSET BestFiles }

(* Runs that differ in the passes they ask for. *)
PassInputs ==
    { <<[BaseConfig EXCEPT !.train = t, !.eval = v, !.k_nearest_neighbor = k,
                           !.interpolation = i, !.linear_evaluation = l,
                           !.conditional_strategy = c],
        {}>> :
        t \in BOOLEAN, v \in BOOLEAN, k \in BOOLEAN, i \in BOOLEAN, l \in BOOLEAN,
        c \in Strategies }

(* Runs that differ in what the training loop reads. *)
LoopInputs ==
    { <<[BaseConfig EXCEPT !.ema = e, !.ema_start = a, !.ema_decay = y,
                           !.total_step = t, !.save_every = s, !.eval = v,
                           !.checkpoint_folder = f, !.conditional_strategy = c],
        OneOfEach>> :
        e \in BOOLEAN, a \in 0..MaxEmaStart, y \in {1, DecayDen - 1},
        t \in 0..MaxTotalStep, s \in 0..MaxSaveEvery, v \in BOOLEAN,
        f \in {None, Some("ckpt")}, c \in {"no", "ContraGAN"} }

Inputs == ValidationInputs \cup ResumeInputs \cup PassInputs \cup LoopInputs

(***************************************************************************)
(* Objects.                                                                *)
(***************************************************************************)
NoModel == [built |-> FALSE, w |-> 0, src |-> "none"]
NoShadow == [built |-> FALSE, num |-> 0, exp |-> 0, src |-> "none"]
NoEma == [exists |-> FALSE, state |-> "INACTIVE", updates |-> 0]
NoOptimizer == [built |-> FALSE, kind |-> "none", src |-> "none"]
NoTrainer ==
    [state |-> "NONE", run_name |-> "", best_step |-> 0, mu |-> None,
     best_fid |-> None, best_fid_checkpoint_path |-> None, evaluate |-> FALSE,
     step_count |-> 0, d_count |-> 0, g_count |-> 0]

Init ==
    /\ \E in \in Inputs : cfg = in[1] /\ dir = in[2]
    /\ pc = "start"
    /\ error = ""
    /\ step = 0 /\ best_step = 0 /\ best_fid = None
    /\ best_fid_checkpoint_path = None
    /\ run_name = "" /\ trained_seed = None
    /\ Gen = NoModel /\ Dis = NoModel /\ Gen_copy = NoShadow /\ Gen_ema = NoEma
    /\ G_optimizer = NoOptimizer /\ D_optimizer = NoOptimizer
    /\ g_checkpoint_dir = None /\ d_checkpoint_dir = None
    /\ g_ema_checkpoint_dir = None
    /\ mu = None /\ prepared = 0 /\ linear_model = FALSE
    /\ trainer = NoTrainer
    /\ calls = <<>> /\ evaluations = 0 /\ saved = 0 /\ alternations = 0

env == <<cfg, dir>>
meta == <<step, best_step, best_fid, best_fid_checkpoint_path, run_name, trained_seed>>
models == <<Gen, Dis, Gen_copy, Gen_ema, G_optimizer, D_optimizer>>
paths == <<g_checkpoint_dir, d_checkpoint_dir, g_ema_checkpoint_dir>>
stats == <<mu, prepared, linear_model>>
training == <<trainer, calls, evaluations, saved, alternations>>

(* An exception leaves train_framework: nothing after the raising line runs. *)
Raise(e) == pc' = "failed" /\ error' = e

(***************************************************************************)
(* The conditions train_framework tests.                                   *)
(***************************************************************************)
(* the check compares the sizes instead of taking the remainder *)
BatchAtLeastGpus(batch_size, n_gpus) == batch_size >= n_gpus

(* assert batch_size % n_gpus == 0 *)
BatchDivisible(batch_size, n_gpus) == batch_size % n_gpus = 0

(* if architecture == "dcgan": assert img_size == 32 *)
ArchitectureSupported(architecture, img_size) ==
    architecture = "dcgan" => img_size = DcganImgSize

(* the chain ends in a default optimizer instead of raising *)
AnyOptimizer(optimizer) == optimizer \in Optimizers

(* the if/elif chain over optimizer; its else raises NotImplementedError *)
KnownOptimizer(optimizer) == optimizer \in {"SGD", "RMSprop", "Adam"}

(* the keys of the dictionaries G_loss and D_loss *)
G_loss == {"vanilla", "hinge", "wasserstein"}
KnownLoss(adv_loss) == adv_loss \in G_loss

(* train_config['checkpoint_folder'] is not None *)
ResumeRequested(checkpoint_folder) == checkpoint_folder # None

(* exists(abspath(train_config['checkpoint_folder'])) *)
Exists(checkpoint_folder) == checkpoint_folder = Some("ckpt")

(* the assertion tests that a seed was restored, not that it is the same *)
SeedRestored(seed, restored) == restored # None

(* assert seed == trained_seed *)
SeedMatches(seed, restored) == Some(seed) = restored

(* what load_checkpoint returns for a file: the metadata stored in it *)
load_checkpoint(f) ==
    [trained_seed |-> Some(CkptFile(f).seed), run_name |-> CkptFile(f).run_name,
     step |-> CkptFile(f).step, best_step |-> CkptFile(f).best_step,
     best_fid |-> CkptFile(f).best_fid,
     best_fid_checkpoint_path |-> Some(CkptFile(f).run_name)]

(* the second assignment leaves the Generator file's seed, run name, step *)
(* and best step bound                                                    *)
ResumeMetadataOfGenerator(g, d) ==
    [load_checkpoint(d) EXCEPT !.trained_seed = load_checkpoint(g).trained_seed,
                               !.run_name = load_checkpoint(g).run_name,
                               !.step = load_checkpoint(g).step,
                               !.best_step = load_checkpoint(g).best_step]

(* the names bound after the two tuple assignments from load_checkpoint:   *)
(* the second, from the Discriminator's file, rebinds trained_seed,        *)
(* run_name, step and best_step and adds best_fid and its path.            *)
ResumeMetadata(g, d) == load_checkpoint(d)

(* the statistics are prepared whether or not evaluation is configured *)
AlwaysPreparesStatistics(c) == TRUE

(* if train_config['eval'], ahead of the Trainer: prepare the statistics *)
PreparesStatistics(c) == c.eval

(* the list of strategies lacks XT_Xent_GAN *)
InvokesRunOursShortList(c) ==
    c.conditional_strategy \in {"ContraGAN", "Proxy_NCA_GAN"} /\ c.train

(* conditional_strategy in ['ContraGAN', "Proxy_NCA_GAN", "XT_Xent_GAN"] and train *)
InvokesRunOurs(c) ==
    c.conditional_strategy \in {"ContraGAN", "Proxy_NCA_GAN", "XT_Xent_GAN"} /\ c.train

(* elif train_config['train'] *)
InvokesRun(c) == ~InvokesRunOurs(c) /\ c.train

(* the final evaluation runs whether or not evaluation is configured *)
AlwaysEvaluates(c) == TRUE

(* if train_config['eval'], after the loop: trainer.evaluation(step=step) *)
EvaluationRequested(c) == c.eval

(* the loop is started from step 0 *)
RestartedStep(s) == 0

(* current_step=step *)
CurrentStep(s) == s

(* the EMA copy and its updater are built whether or not ema is set *)
AlwaysBuildsEma(c) == TRUE

(* if ema: the EMA copy and its updater are built, else both are None *)
BuildsEma(c) == c.ema

(***************************************************************************)
(* train_framework, block by block.                                        *)
(***************************************************************************)
(* fix_all_seed .. assert batch_size % n_gpus == 0 *)
CheckBatch ==
    /\ pc = "start"
    /\ IF BatchDivisible(cfg.batch_size, cfg.n_gpus)
       THEN pc' = "setup" /\ error' = error
       ELSE Raise("AssertionError: batch_size")
    /\ UNCHANGED <<env, meta, models, paths, stats, training>>

(* step, best_step, best_fid, best_fid_checkpoint_path = 0, 0, None, None; *)
(* the run name, the logger and the datasets                               *)
Setup ==
    /\ pc = "setup"
    /\ step' = 0 /\ best_step' = 0 /\ best_fid' = None
    /\ best_fid_checkpoint_path' = None
    /\ run_name' = "runNew"
    /\ pc' = "build"
    /\ UNCHANGED <<env, error, trained_seed, models, paths, stats, training>>

(* Building model: Gen and Dis *)
BuildModels ==
    /\ pc = "build"
    /\ IF ArchitectureSupported(cfg.architecture, cfg.img_size)
       THEN /\ Gen' = [built |-> TRUE, w |-> 0, src |-> "init"]
            /\ Dis' = [built |-> TRUE, w |-> 0, src |-> "init"]
            /\ pc' = "ema" /\ error' = error
       ELSE /\ Raise("AssertionError: dcgan")
            /\ UNCHANGED <<Gen, Dis>>
    /\ UNCHANGED <<env, meta, Gen_copy, Gen_ema, G_optimizer, D_optimizer, paths,
                   stats, training>>

(* if ema: Gen_copy and Gen_ema = ema_(Gen, Gen_copy, ema_decay, ema_start) *)
BuildEma ==
    /\ pc = "ema"
    /\ IF BuildsEma(cfg)
       THEN /\ Gen_copy' = [built |-> TRUE, num |-> Gen.w, exp |-> 0, src |-> "init"]
            /\ Gen_ema' = [exists |-> TRUE, state |-> "INACTIVE", updates |-> 0]
       ELSE /\ Gen_copy' = NoShadow
            /\ Gen_ema' = NoEma
    /\ pc' = "optimizers"
    /\ UNCHANGED <<env, error, meta, Gen, Dis, G_optimizer, D_optimizer, paths,
                   stats, training>>

(* DataParallel, the data loaders, the loss tables and the two optimizers *)
BuildOptimizers ==
    /\ pc = "optimizers"
    /\ IF KnownOptimizer(cfg.optimizer)
       THEN /\ G_optimizer' = [built |-> TRUE, kind |-> cfg.optimizer, src |-> "init"]
            /\ D_optimizer' = [built |-> TRUE, kind |-> cfg.optimizer, src |-> "init"]
            /\ pc' = "checkpoint" /\ error' = error
       ELSE /\ Raise("NotImplementedError")
            /\ UNCHANGED <<G_optimizer, D_optimizer>>
    /\ UNCHANGED <<env, meta, Gen, Dis, Gen_copy, Gen_ema, paths, stats, training>>

(* if checkpoint_folder is not None: the folder must exist; the first match *)
(* of each glob is the Generator's and the Discriminator's checkpoint.     *)
(* glob returns its matches in arbitrary order, so [0] is any of them; on  *)
(* an empty list [0] raises IndexError.                                    *)
FindCheckpoints ==
    /\ pc = "checkpoint"
    /\ IF ~ResumeRequested(cfg.checkpoint_folder)
       THEN /\ pc' = "statistics" /\ error' = error
            /\ UNCHANGED <<g_checkpoint_dir, d_checkpoint_dir>>
       ELSE IF ~Exists(cfg.checkpoint_folder)
       THEN /\ Raise("NotADirectoryError")
            /\ UNCHANGED <<g_checkpoint_dir, d_checkpoint_dir>>
       ELSE IF Glob(dir, "G", When(cfg.load_current)) = {}
       THEN /\ Raise("IndexError")
            /\ UNCHANGED <<g_checkpoint_dir, d_checkpoint_dir>>
       ELSE IF Glob(dir, "D", When(cfg.load_current)) = {}
       THEN /\ Raise("IndexError")
            /\ \E g \in Glob(dir, "G", When(cfg.load_current)) :
                   g_checkpoint_dir' = Some(g)
            /\ UNCHANGED d_checkpoint_dir
       ELSE /\ \E g \in Glob(dir, "G", When(cfg.load_current)) :
                   g_checkpoint_dir' = Some(g)
            /\ \E d \in Glob(dir, "D", When(cfg.load_current)) :
                   d_checkpoint_dir' = Some(d)
            /\ pc' = "load_G" /\ error' = error
    /\ UNCHANGED <<env, meta, models, g_ema_checkpoint_dir, stats, training>>

(* Gen, G_optimizer, trained_seed, run_name, step, best_step = load_checkpoint(..) *)
LoadGenerator ==
    /\ pc = "load_G"
    /\ LET g == g_checkpoint_dir[1]
           r == load_checkpoint(g)
       IN  /\ Gen' = [built |-> TRUE, w |-> CkptFile(g).w, src |-> g]
           /\ G_optimizer' = [G_optimizer EXCEPT !.src = g]
           /\ trained_seed' = r.trained_seed
           /\ run_name' = r.run_name
           /\ step' = r.step
           /\ best_step' = r.best_step
    /\ pc' = "load_D"
    /\ UNCHANGED <<env, error, best_fid, best_fid_checkpoint_path, Dis, Gen_copy,
                   Gen_ema, D_optimizer, paths, stats, training>>

(* Dis, D_optimizer, trained_seed, run_name, step, best_step, best_fid,    *)
(* best_fid_checkpoint_path = load_checkpoint(.., metric=True)             *)
LoadDiscriminator ==
    /\ pc = "load_D"
    /\ LET d == d_checkpoint_dir[1]
           r == ResumeMetadata(g_checkpoint_dir[1], d)
       IN  /\ Dis' = [built |-> TRUE, w |-> CkptFile(d).w, src |-> d]
           /\ D_optimizer' = [D_optimizer EXCEPT !.src = d]
           /\ trained_seed' = r.trained_seed
           /\ run_name' = r.run_name
           /\ step' = r.step
           /\ best_step' = r.best_step
           /\ best_fid' = r.best_fid
           /\ best_fid_checkpoint_path' = r.best_fid_checkpoint_path
    /\ pc' = "load_ema"
    /\ UNCHANGED <<env, error, Gen, Gen_copy, Gen_ema, G_optimizer, paths, stats,
                   training>>

(* if ema: the first match of the G_ema glob is loaded into Gen_copy, weights only *)
LoadEma ==
    /\ pc = "load_ema"
    /\ IF ~BuildsEma(cfg)
       THEN /\ pc' = "seed" /\ error' = error
            /\ UNCHANGED <<Gen_copy, g_ema_checkpoint_dir>>
       ELSE IF Glob(dir, "G_ema", When(cfg.load_current)) = {}
       THEN /\ Raise("IndexError")
            /\ UNCHANGED <<Gen_copy, g_ema_checkpoint_dir>>
       ELSE \E e \in Glob(dir, "G_ema", When(cfg.load_current)) :
            /\ g_ema_checkpoint_dir' = Some(e)
            /\ Gen_copy' = [built |-> TRUE, num |-> CkptFile(e).w, exp |-> 0, src |-> e]
            /\ pc' = "seed" /\ error' = error
    /\ UNCHANGED <<env, meta, Gen, Dis, Gen_ema, G_optimizer, D_optimizer,
                   g_checkpoint_dir, d_checkpoint_dir, stats, training>>

(* assert seed == trained_seed *)
CheckSeed ==
    /\ pc = "seed"
    /\ IF SeedMatches(cfg.seed, trained_seed)
       THEN pc' = "statistics" /\ error' = error
       ELSE Raise("AssertionError: seed")
    /\ UNCHANGED <<env, meta, models, paths, stats, training>>

(* if train_config['eval']: mu, sigma, is_score, is_std =                  *)
(* prepare_inception_moments_eval_dataset(..) else mu, sigma = None, None  *)
PrepareStatistics ==
    /\ pc = "statistics"
    /\ IF PreparesStatistics(cfg)
       THEN /\ \E m \in 0..MaxStat : mu' = Some(m)
            /\ prepared' = prepared + 1
       ELSE /\ mu' = None
            /\ prepared' = prepared
    /\ pc' = "linear"
    /\ UNCHANGED <<env, error, meta, models, paths, linear_model, training>>

(* if train_config['linear_evaluation']: the linear classifier and its optimizer *)
BuildLinear ==
    /\ pc = "linear"
    /\ linear_model' = cfg.linear_evaluation
    /\ pc' = "trainer"
    /\ UNCHANGED <<env, error, meta, models, paths, mu, prepared, training>>

(* trainer = Trainer(..); G_loss[adv_loss] raises KeyError on an unknown key *)
BuildTrainer ==
    /\ pc = "trainer"
    /\ IF KnownLoss(cfg.adv_loss)
       THEN /\ trainer' = [state |-> "INITIALIZING", run_name |-> run_name,
                           best_step |-> best_step, mu |-> mu, best_fid |-> best_fid,
                           best_fid_checkpoint_path |-> best_fid_checkpoint_path,
                           evaluate |-> cfg.eval, step_count |-> 0,
                           d_count |-> 0, g_count |-> 0]
            /\ pc' = "train" /\ error' = error
       ELSE /\ Raise("KeyError")
            /\ UNCHANGED trainer
    /\ UNCHANGED <<env, meta, models, paths, stats, calls, evaluations, saved,
                   alternations>>

(***************************************************************************)
(* The Trainer's loop (run and run_ours share this shape) and the EMA      *)
(* updater.  The shadow weight is the exact fraction num / DecayDen^exp;   *)
(* ema_decay is cfg.ema_decay / DecayDen.                                  *)
(***************************************************************************)
(* the loop ends when the step counter reaches total_step *)
LoopHead(s) == IF s < cfg.total_step THEN "D_STEP" ELSE "TERMINATED"

(* shadow = decay*shadow + (1-decay)*live *)
ShadowUpdate(shadow, live, decay) ==
    [shadow EXCEPT !.num = decay * shadow.num
                           + (DecayDen - decay) * live * Pow(DecayDen, shadow.exp),
                   !.exp = shadow.exp + 1]

(* the updater is ACTIVE at and after the start step, INACTIVE before it *)
EmaActive(s) == s >= cfg.ema_start

(* the entry point invokes one loop variant, or none *)
InvokeLoop ==
    /\ pc = "train"
    /\ IF InvokesRunOurs(cfg) \/ InvokesRun(cfg)
       THEN /\ calls' = Append(calls, IF InvokesRunOurs(cfg) THEN "run_ours" ELSE "run")
            /\ trainer' = [trainer EXCEPT !.step_count = CurrentStep(step),
                                          !.state = LoopHead(CurrentStep(step))]
            /\ pc' = "loop"
       ELSE /\ pc' = "evaluation"
            /\ UNCHANGED <<calls, trainer>>
    /\ UNCHANGED <<env, error, meta, models, paths, stats, evaluations, saved,
                   alternations>>

(* one discriminator optimizer step; after d_steps_per_iter of them, G_STEP *)
D_STEP ==
    /\ pc = "loop" /\ trainer.state = "D_STEP"
    /\ \E w \in 0..MaxWeight : Dis' = [Dis EXCEPT !.w = w]
    /\ trainer' = IF trainer.d_count + 1 >= DStepsPerIter
                  THEN [trainer EXCEPT !.d_count = 0, !.state = "G_STEP"]
                  ELSE [trainer EXCEPT !.d_count = @ + 1]
    /\ UNCHANGED <<env, pc, error, meta, Gen, Gen_copy, Gen_ema, G_optimizer,
                   D_optimizer, paths, stats, calls, evaluations, saved,
                   alternations>>

(* one generator optimizer step, then the EMA updater if there is one;     *)
(* after g_steps_per_iter of them the step counter advances                *)
G_STEP ==
    /\ pc = "loop" /\ trainer.state = "G_STEP"
    /\ \E w \in 0..MaxWeight :
          /\ Gen' = [Gen EXCEPT !.w = w]
          /\ IF Gen_ema.exists /\ EmaActive(trainer.step_count)
             THEN /\ Gen_copy' = ShadowUpdate(Gen_copy, w, cfg.ema_decay)
                  /\ Gen_ema' = [Gen_ema EXCEPT !.state = "ACTIVE",
                                                !.updates = @ + 1]
             ELSE UNCHANGED <<Gen_copy, Gen_ema>>
    /\ IF trainer.g_count + 1 >= GStepsPerIter
       THEN /\ trainer' = [trainer EXCEPT !.g_count = 0, !.state = "EVAL_GATE",
                                          !.step_count = @ + 1]
            /\ alternations' = alternations + 1
       ELSE /\ trainer' = [trainer EXCEPT !.g_count = @ + 1]
            /\ alternations' = alternations
    /\ UNCHANGED <<env, pc, error, meta, Dis, G_optimizer, D_optimizer, paths,
                   stats, calls, evaluations, saved>>

(* every save_every steps the loop passes through CHECKPOINT_GATE;         *)
(* save_every = 0 switches checkpointing off                               *)
EVAL_GATE ==
    /\ pc = "loop" /\ trainer.state = "EVAL_GATE"
    /\ trainer' = [trainer EXCEPT !.state =
                      IF cfg.save_every > 0 /\ trainer.step_count % cfg.save_every = 0
                      THEN "CHECKPOINT_GATE"
                      ELSE LoopHead(trainer.step_count)]
    /\ UNCHANGED <<env, pc, error, meta, models, paths, stats, calls, evaluations,
                   saved, alternations>>

(* save the "current" checkpoints; when evaluation is configured, score    *)
(* against the cached statistics and on an improvement save "best" too     *)
CHECKPOINT_GATE ==
    /\ pc = "loop" /\ trainer.state = "CHECKPOINT_GATE"
    /\ IF trainer.evaluate
       THEN \E fid \in 1..MaxFid :
              /\ evaluations' = evaluations + 1
              /\ IF trainer.best_fid = None \/ fid < trainer.best_fid[1]
                 THEN /\ trainer' = [trainer EXCEPT
                                        !.best_fid = Some(fid),
                                        !.best_step = trainer.step_count,
                                        !.best_fid_checkpoint_path = Some(trainer.run_name),
                                        !.state = LoopHead(trainer.step_count)]
                      /\ saved' = saved + 2
                 ELSE /\ trainer' = [trainer EXCEPT
                                        !.state = LoopHead(trainer.step_count)]
                      /\ saved' = saved + 1
       ELSE /\ evaluations' = evaluations
            /\ trainer' = [trainer EXCEPT !.state = LoopHead(trainer.step_count)]
            /\ saved' = saved + 1
    /\ UNCHANGED <<env, pc, error, meta, models, paths, stats, calls, alternations>>

(* step = trainer.run(..) / trainer.run_ours(..): the loop returns its step *)
LoopReturn ==
    /\ pc = "loop" /\ trainer.state = "TERMINATED"
    /\ step' = trainer.step_count
    /\ pc' = "evaluation"
    /\ UNCHANGED <<env, error, best_step, best_fid, best_fid_checkpoint_path,
                   run_name, trained_seed, models, paths, stats, training>>

(***************************************************************************)
(* The optional passes after the loop.                                     *)
(***************************************************************************)
(* if train_config['eval']: is_save = trainer.evaluation(step=step) *)
EvaluationPass ==
    /\ pc = "evaluation"
    /\ IF EvaluationRequested(cfg)
       THEN /\ calls' = Append(calls, "evaluation")
            /\ evaluations' = evaluations + 1
       ELSE UNCHANGED <<calls, evaluations>>
    /\ pc' = "nearest_neighbor"
    /\ UNCHANGED <<env, error, meta, models, paths, stats, trainer, saved,
                   alternations>>

(* if train_config['k_nearest_neighbor']: trainer.Nearest_Neighbor(..) *)
NearestNeighborPass ==
    /\ pc = "nearest_neighbor"
    /\ calls' = IF cfg.k_nearest_neighbor THEN Append(calls, "Nearest_Neighbor")
                ELSE calls
    /\ pc' = "interpolation"
    /\ UNCHANGED <<env, error, meta, models, paths, stats, trainer, evaluations,
                   saved, alternations>>

(* if train_config['interpolation']: trainer.linear_interpolation(..), twice *)
InterpolationPass ==
    /\ pc = "interpolation"
    /\ calls' = IF cfg.interpolation
                THEN calls \o <<"linear_interpolation", "linear_interpolation">>
                ELSE calls
    /\ pc' = "linear_evaluation"
    /\ UNCHANGED <<env, error, meta, models, paths, stats, trainer, evaluations,
                   saved, alternations>>

(* if train_config['linear_evaluation']: trainer.linear_classification(..) *)
LinearClassificationPass ==
    /\ pc = "linear_evaluation"
    /\ calls' = IF cfg.linear_evaluation THEN Append(calls, "linear_classification")
                ELSE calls
    /\ pc' = "done"
    /\ UNCHANGED <<env, error, meta, models, paths, stats, trainer, evaluations,
                   saved, alternations>>

Next ==
    \/ CheckBatch \/ Setup \/ BuildModels \/ BuildEma \/ BuildOptimizers
    \/ FindCheckpoints \/ LoadGenerator \/ LoadDiscriminator \/ LoadEma
    \/ CheckSeed \/ PrepareStatistics \/ BuildLinear \/ BuildTrainer
    \/ InvokeLoop \/ D_STEP \/ G_STEP \/ EVAL_GATE \/ CHECKPOINT_GATE
    \/ LoopReturn \/ EvaluationPass \/ NearestNeighborPass \/ InterpolationPass
    \/ LinearClassificationPass

Spec == Init /\ [][Next]_vars

(***************************************************************************)
(* Properties.                                                             *)
(***************************************************************************)
Indivisible == cfg.batch_size % cfg.n_gpus # 0
BeforeTrainer ==
    {"start", "setup", "build", "ema", "optimizers", "checkpoint", "load_G",
     "load_D", "load_ema", "seed", "statistics", "linear", "trainer"}
AfterLoop == {"evaluation", "nearest_neighbor", "interpolation", "linear_evaluation", "done"}
NothingTrained ==
    /\ trainer.state = "NONE"
    /\ calls = <<>>
    /\ alternations = 0 /\ evaluations = 0 /\ saved = 0
DiscriminatorRestored ==
    /\ d_checkpoint_dir # None
    /\ Dis.src = d_checkpoint_dir[1]

(* C1: when batch_size is not divisible by the device count the run fails  *)
(* in the batch-size assertion, with no Generator, Discriminator, EMA copy *)
(* or optimizer built and no checkpoint located or loaded.                 *)
C1_IndivisibleBatchBuildsNothing ==
    Indivisible =>
        /\ pc \in {"start", "failed"}
        /\ pc = "failed" => error = "AssertionError: batch_size"
        /\ ~Gen.built /\ ~Dis.built /\ ~Gen_copy.built /\ ~Gen_ema.exists
        /\ ~G_optimizer.built /\ ~D_optimizer.built
        /\ g_checkpoint_dir = None /\ d_checkpoint_dir = None
        /\ g_ema_checkpoint_dir = None /\ trained_seed = None
        /\ NothingTrained

C1_Witness ==
    /\ Indivisible
    /\ pc = "failed" /\ error = "AssertionError: batch_size"
    /\ cfg.ema /\ cfg.checkpoint_folder = Some("ckpt")

(* C2, as stated: a finished resume whose restored seed differs from the   *)
(* configured seed ended in the seed-mismatch error, with no Trainer and   *)
(* no loop.                                                                *)
C2_SeedMismatchErrorAlways ==
    (/\ pc \in {"failed", "done"}
     /\ cfg.checkpoint_folder # None
     /\ trained_seed # None
     /\ trained_seed # Some(cfg.seed))
    => (error = "AssertionError: seed" /\ NothingTrained)

(* C2, amended: once the Discriminator checkpoint is restored with a seed  *)
(* other than the configured one, the Trainer is never constructed and no  *)
(* loop variant is invoked; the run fails in the seed assertion, or, when  *)
(* EMA is on and no G_ema file matches, in that lookup, which comes first. *)
C2_SeedMismatchNeverTrains ==
    (/\ cfg.checkpoint_folder # None
     /\ DiscriminatorRestored
     /\ trained_seed # Some(cfg.seed))
    => /\ NothingTrained
       /\ pc \in {"load_ema", "seed", "failed"}
       /\ pc = "failed" => error \in {"AssertionError: seed", "IndexError"}
       /\ error = "IndexError" =>
              cfg.ema /\ Glob(dir, "G_ema", When(cfg.load_current)) = {}
       /\ (pc = "failed" /\ g_ema_checkpoint_dir # None) => error = "AssertionError: seed"
       /\ (pc = "failed" /\ ~cfg.ema) => error = "AssertionError: seed"

C2_Witness ==
    /\ cfg.checkpoint_folder # None
    /\ DiscriminatorRestored
    /\ trained_seed # Some(cfg.seed)
    /\ pc = "failed" /\ error = "AssertionError: seed"
    /\ cfg.train

(* C3, as stated: a checkpoint of a role is loaded only when exactly one   *)
(* file matches the role and the selected slot.                            *)
C3_LoadedOnlyIfUniqueMatch ==
    /\ Gen.src \in FileIds =>
           Cardinality(Glob(dir, "G", When(cfg.load_current))) = 1
    /\ Dis.src \in FileIds =>
           Cardinality(Glob(dir, "D", When(cfg.load_current))) = 1
    /\ Gen_copy.src \in FileIds =>
           Cardinality(Glob(dir, "G_ema", When(cfg.load_current))) = 1

(* C4, as stated: a run that completes has computed the reference          *)
(* statistics exactly once.                                                *)
C4_PreparedExactlyOnce == pc = "done" => prepared = 1

(* C4, amended: the reference statistics are computed at most once, always *)
(* before the Trainer is constructed: exactly once when evaluation is      *)
(* configured and never otherwise; the Trainer holds the values computed   *)
(* and no later step, evaluation() included, recomputes or changes them.   *)
C4_StatisticsPreparedOnceBeforeTraining ==
    /\ [](/\ prepared <= 1
          /\ (prepared = 1) <=> (mu # None)
          /\ evaluations > 0 => prepared = 1
          /\ trainer.state # "NONE" =>
                 /\ prepared = (IF cfg.eval THEN 1 ELSE 0)
                 /\ trainer.mu = mu)
    /\ [][/\ prepared' # prepared => (trainer.state = "NONE" /\ trainer'.state = "NONE")
          /\ trainer.state # "NONE" => (trainer'.mu = trainer.mu /\ mu' = mu)
          /\ evaluations' # evaluations => (prepared' = prepared /\ mu' = mu)]_vars

C4_Witness ==
    /\ prepared = 1
    /\ evaluations >= 3
    /\ pc = "done"
    /\ trainer.mu = mu /\ mu # None

(* C5: a run whose configuration is invalid (batch size not divisible by   *)
(* the device count, unknown optimizer, unknown adversarial loss, dcgan    *)
(* with an image size other than 32, checkpoint folder given but missing)  *)
(* never constructs the Trainer, never invokes a loop variant and never    *)
(* completes.                                                              *)
InvalidConfiguration ==
    \/ Indivisible
    \/ cfg.optimizer \notin {"SGD", "RMSprop", "Adam"}
    \/ cfg.adv_loss \notin {"vanilla", "hinge", "wasserstein"}
    \/ (cfg.architecture = "dcgan" /\ cfg.img_size # 32)
    \/ cfg.checkpoint_folder = Some("missing")

C5_InvalidConfigurationNeverTrains ==
    InvalidConfiguration =>
        /\ pc \in BeforeTrainer \cup {"failed"}
        /\ NothingTrained

C5_Witness ==
    /\ pc = "failed" /\ error = "KeyError"
    /\ cfg.train /\ cfg.checkpoint_folder # None /\ prepared = 1
    /\ ~Indivisible /\ cfg.optimizer \in {"SGD", "RMSprop", "Adam"}

(* C6: when a loop variant is invoked on a resume, its current_step is    *)
(* the step stored in the loaded Discriminator checkpoint, the Trainer     *)
(* holds that file's best step, best score and best-score path, and the    *)
(* Generator, the Discriminator and both optimizers have been restored     *)
(* from the located files; without a resume the loop starts at step 0      *)
(* with best step 0 and no best score, on freshly built models.            *)
C6_ResumeContinuesStepCounter ==
    [][(pc = "train" /\ pc' = "loop") =>
          IF cfg.checkpoint_folder # None
          THEN /\ trainer'.step_count = CkptFile(d_checkpoint_dir[1]).step
               /\ trainer'.best_step = CkptFile(d_checkpoint_dir[1]).best_step
               /\ trainer'.best_fid = CkptFile(d_checkpoint_dir[1]).best_fid
               /\ trainer'.best_fid_checkpoint_path
                      = Some(CkptFile(d_checkpoint_dir[1]).run_name)
               /\ Gen.src = g_checkpoint_dir[1] /\ G_optimizer.src = g_checkpoint_dir[1]
               /\ Dis.src = d_checkpoint_dir[1] /\ D_optimizer.src = d_checkpoint_dir[1]
               /\ Gen.w = CkptFile(g_checkpoint_dir[1]).w
               /\ Dis.w = CkptFile(d_checkpoint_dir[1]).w
          ELSE /\ trainer'.step_count = 0
               /\ trainer'.best_step = 0
               /\ trainer'.best_fid = None
               /\ trainer'.best_fid_checkpoint_path = None
               /\ Gen.src = "init" /\ Dis.src = "init"
               /\ G_optimizer.src = "init" /\ D_optimizer.src = "init"]_vars

C6_Witness ==
    /\ pc = "loop"
    /\ cfg.checkpoint_folder # None
    /\ alternations = 0
    /\ trainer.step_count = 1 /\ cfg.total_step = 2
    /\ trainer.state = "D_STEP"

OursStrategies == {"ContraGAN", "Proxy_NCA_GAN", "XT_Xent_GAN"}
ExpectedLoop ==
    IF ~cfg.train THEN <<>>
    ELSE IF cfg.conditional_strategy \in OursStrategies THEN <<"run_ours">>
    ELSE <<"run">>
ExpectedCalls ==
    ExpectedLoop
    \o (IF cfg.eval THEN <<"evaluation">> ELSE <<>>)
    \o (IF cfg.k_nearest_neighbor THEN <<"Nearest_Neighbor">> ELSE <<>>)
    \o (IF cfg.interpolation THEN <<"linear_interpolation", "linear_interpolation">>
        ELSE <<>>)
    \o (IF cfg.linear_evaluation THEN <<"linear_classification">> ELSE <<>>)
IsPrefix(a, b) == Len(a) <= Len(b) /\ a = SubSeq(b, 1, Len(a))

C8_OneLoopThenPassesInOrder ==
    /\ IsPrefix(calls, ExpectedCalls)
    /\ calls # <<>> => trainer.state # "NONE"
    /\ pc \in BeforeTrainer \cup {"train", "failed"} => calls = <<>>
    /\ pc = "loop" => (calls = ExpectedLoop /\ calls # <<>>)
    /\ pc \in AfterLoop =>
           /\ IsPrefix(ExpectedLoop, calls)
           /\ trainer.state \in {"INITIALIZING", "TERMINATED"}
           /\ (trainer.state = "INITIALIZING") <=> ~cfg.train
    /\ pc = "done" => calls = ExpectedCalls
    /\ Cardinality({i \in 1..Len(calls) : calls[i] \in {"run", "run_ours"}}) <= 1

C8_Witness ==
    /\ pc = "done"
    /\ cfg.conditional_strategy = "XT_Xent_GAN"
    /\ calls = <<"run_ours", "evaluation", "Nearest_Neighbor", "linear_interpolation",
                 "linear_interpolation", "linear_classification">>

C10_DiscriminatorMetadataGoverns ==
    DiscriminatorRestored =>
        /\ trained_seed = Some(CkptFile(d_checkpoint_dir[1]).seed)
        /\ run_name = CkptFile(d_checkpoint_dir[1]).run_name
        /\ best_step = CkptFile(d_checkpoint_dir[1]).best_step
        /\ pc \notin AfterLoop => step = CkptFile(d_checkpoint_dir[1]).step
        /\ error = "AssertionError: seed" =>
               CkptFile(d_checkpoint_dir[1]).seed # cfg.seed
        /\ pc \notin {"load_ema", "seed", "failed"} =>
               CkptFile(d_checkpoint_dir[1]).seed = cfg.seed
        /\ trainer.state # "NONE" =>
               trainer.run_name = CkptFile(d_checkpoint_dir[1]).run_name
        /\ (pc = "loop" /\ alternations = 0 /\ trainer.g_count = 0) =>
               trainer.step_count = CkptFile(d_checkpoint_dir[1]).step

C10_Witness ==
    /\ DiscriminatorRestored
    /\ pc = "done" /\ error = ""
    /\ CkptFile(g_checkpoint_dir[1]).seed # cfg.seed
    /\ CkptFile(g_checkpoint_dir[1]).step # CkptFile(d_checkpoint_dir[1]).step
    /\ CkptFile(d_checkpoint_dir[1]).seed = cfg.seed
    /\ alternations > 0

====
